---- MODULE Spec2Model ----
(***************************************************************************)
(* A model of TamScraper.py: the conversion of a LaunchBox metadata export *)
(* (XML plus artwork folders) into gamelist.xml files with normalised      *)
(* images.                                                                 *)
(*                                                                         *)
(* Strings are sequences of one-character strings, so that splitext,       *)
(* lower(), endswith(), replace() and sorted() are computed as Python      *)
(* computes them.  None is a value distinct from every string.            *)
(***************************************************************************)
EXTENDS Integers, Sequences, FiniteSets, TLC

VARIABLES
    nt,      \* TRUE when os.path is ntpath (Windows), FALSE when posixpath
    oldPillow, \* TRUE when Pillow is older than 7 (Image.ANTIALIAS, line 11)
    fs,      \* the directory tree: folder name -> folder contents
    fs0,     \* the directory tree as it was when the script was started
    dirs,    \* os.listdir('.') restricted to directories, in listing order
    pc,      \* position of the script
    di,      \* index of the next entry of dirs the main loop looks at
    found,   \* the main loop's counter of processed folders
    cur,     \* the locals of the running process_directory call
    runs,    \* number of times the script has been started
    arg,     \* input of the function under study (function-level specifications)
    ret      \* its result

vars == <<nt, oldPillow, fs, fs0, dirs, pc, di, found, cur, runs, arg, ret>>

-----------------------------------------------------------------------------
(* Python values *)

None == <<"<None>">>          \* Python's None (no string has this shape)
Absent == <<"<absent>">>      \* Element.find() found no such child

Truthy(s) == s # None /\ s # <<>>

-----------------------------------------------------------------------------
(* Characters *)

UpperChars == <<"A","B","C","D","E","F","G","H","I","J","K","L","M",
                "N","O","P","Q","R","S","T","U","V","W","X","Y","Z">>
LowerChars == <<"a","b","c","d","e","f","g","h","i","j","k","l","m",
                "n","o","p","q","r","s","t","u","v","w","x","y","z">>

\* the grave accent (U+0060), which a TLA+ string cannot hold
Backtick == "U+0060"

\* the characters of the model in code point order
CharOrder == <<" ", "$", "'", "*", "-", ".", "/",
               "0","1","2","3","4","5","6","7","8","9", ":", "<", ">", "?">>
             \o UpperChars \o <<"\\", "_", Backtick>> \o LowerChars \o <<"|">>

Ord(c) == CHOOSE i \in 1..Len(CharOrder) : CharOrder[i] = c

LowerChar(c) ==
    IF \E i \in 1..Len(UpperChars) : UpperChars[i] = c
    THEN LowerChars[CHOOSE i \in 1..Len(UpperChars) : UpperChars[i] = c]
    ELSE c

\* str.lower()
Lower(s) == [i \in 1..Len(s) |-> LowerChar(s[i])]

\* str.endswith(suffix)
EndsWith(s, suffix) ==
    /\ Len(s) >= Len(suffix)
    /\ SubSeq(s, Len(s) - Len(suffix) + 1, Len(s)) = suffix

\* str.startswith(prefix)
StartsWith(s, prefix) ==
    /\ Len(s) >= Len(prefix)
    /\ SubSeq(s, 1, Len(prefix)) = prefix

\* str.replace(old, new) for single characters
ReplaceChar(s, old, new) == [i \in 1..Len(s) |-> IF s[i] = old THEN new ELSE s[i]]

\* s < t in Python's string order
RECURSIVE StrLess(_, _)
StrLess(s, t) ==
    IF t = <<>> THEN FALSE
    ELSE IF s = <<>> THEN TRUE
    ELSE IF s[1] # t[1] THEN Ord(s[1]) < Ord(t[1])
    ELSE StrLess(Tail(s), Tail(t))

\* sorted() of a collection of distinct strings
RECURSIVE Sorted(_)
Sorted(S) ==
    IF S = {} THEN <<>>
    ELSE LET m == CHOOSE x \in S : \A y \in S \ {x} : StrLess(x, y)
         IN  <<m>> \o Sorted(S \ {m})

Range(s) == {s[i] : i \in 1..Len(s)}

\* the last index of character c in s, 0 when there is none  (str.rfind + 1)
LastIndex(s, c) ==
    IF \E i \in 1..Len(s) : s[i] = c
    THEN CHOOSE i \in 1..Len(s) : s[i] = c /\ \A j \in (i+1)..Len(s) : s[j] # c
    ELSE 0

\* os.path.splitext of a name without directory part: the extension starts at
\* the last dot (index dot, 0 when there is none), unless only dots precede it
SplitAt(p, dot) ==
    IF dot > 0 /\ \E i \in 1..(dot - 1) : p[i] # "."
    THEN <<SubSeq(p, 1, dot - 1), SubSeq(p, dot, Len(p))>>
    ELSE <<p, <<>>>>

Splitext(p) == SplitAt(p, LastIndex(p, "."))

\* os.path.basename: the part after the last separator
Basename(p, windows) ==
    LET seps == IF windows THEN {"/", "\\"} ELSE {"/"}
        cut  == IF \E i \in 1..Len(p) : p[i] \in seps
                THEN CHOOSE i \in 1..Len(p) :
                        p[i] \in seps /\ \A j \in (i+1)..Len(p) : p[j] \notin seps
                ELSE 0
    IN  SubSeq(p, cut + 1, Len(p))

-----------------------------------------------------------------------------
(* Configuration *)

TARGET_W_FANART == 1280
TARGET_H_FANART == 720
TARGET_W_COVER == 512
TARGET_H_COVER == 512
TARGET_W_LOGO == 512
TARGET_H_LOGO == 256

TARGET_RES_FANART == <<TARGET_W_FANART, TARGET_H_FANART>>
TARGET_RES_COVER == <<TARGET_W_COVER, TARGET_H_COVER>>
TARGET_RES_LOGO == <<TARGET_W_LOGO, TARGET_H_LOGO>>

-----------------------------------------------------------------------------
(* sanitize_lb_title *)

SanitizedChars == {"<", ">", ":", "\"", "/", "\\", "|", "?", "*", "'", Backtick}

sanitize_lb_title(title) ==
    IF ~Truthy(title) THEN <<>>
    ELSE [i \in 1..Len(title) |-> IF title[i] \in SanitizedChars THEN "_" ELSE title[i]]

-----------------------------------------------------------------------------
(* find_image *)

\* a category folder: whether os.path.exists(search_root), and the files of
\* its subtree in os.walk order, each with its directory (root) and name (file)
NoDir == [exists |-> FALSE, walk |-> <<>>]
Dir(walk) == [exists |-> TRUE, walk |-> walk]

valid_exts == { <<".","j","p","g">>, <<".","p","n","g">>,
                <<".","j","p","e","g">>, <<".","g","i","f">> }

\* the candidates list of find_image
Candidates(title_sanitized, rom_filename_no_ext) ==
    << title_sanitized \o <<"-","0","1">>,
       title_sanitized,
       rom_filename_no_ext \o <<"-","0","1">>,
       ReplaceChar(title_sanitized, "_", " ") >>

\* line 41 without ext.lower()
NameExtMatchesCaseSensitive(name_ext, candidates) ==
    name_ext[2] \in valid_exts /\ name_ext[1] \in Range(candidates)

\* the test of line 41 on the name and ext of one file of the walk
NameExtMatches(name_ext, candidates) ==
    Lower(name_ext[2]) \in valid_exts /\ name_ext[1] \in Range(candidates)

ImageMatches(file, candidates) == NameExtMatches(Splitext(file), candidates)

\* os.path.join(root, file)
JoinPath(root, file) == root \o <<"/">> \o file

\* the first file of the walk that passes the test of line 41, or None
FirstMatch(walk, candidates) ==
    IF \E i \in 1..Len(walk) : ImageMatches(walk[i].file, candidates)
    THEN LET first == CHOOSE i \in 1..Len(walk) :
                        /\ ImageMatches(walk[i].file, candidates)
                        /\ \A j \in 1..(i-1) : ~ImageMatches(walk[j].file, candidates)
         IN  JoinPath(walk[first].root, walk[first].file)
    ELSE None

\* art is the base directory: type_folder -> category folder
find_image(art, type_folder, title_sanitized, rom_filename_no_ext) ==
    IF ~art[type_folder].exists THEN None
    ELSE FirstMatch(art[type_folder].walk,
                    Candidates(title_sanitized, rom_filename_no_ext))

-----------------------------------------------------------------------------
(* Image processing *)

Max(a, b) == IF a >= b THEN a ELSE b
Abs(a) == IF a >= 0 THEN a ELSE -a

\* Image.thumbnail of Pillow 7.1 and later: the size the image is resized to.
\* round_aspect picks floor or ceil of the exact value, whichever keeps the
\* aspect ratio closer (floor on a tie), and never less than 1.
ThumbnailCurrent(size, box) ==
    LET w == size[1]
        h == size[2]
        x == box[1]
        y == box[2]
    IN  IF x >= w /\ y >= h THEN size
        ELSE IF x * h >= w * y
        THEN LET lo == (y * w) \div h
                 hi == IF lo * h = y * w THEN lo ELSE lo + 1
                 \* key(n) = |w/h - n/y|
                 pick == IF Abs(w * y - lo * h) <= Abs(w * y - hi * h) THEN lo ELSE hi
             IN  <<Max(pick, 1), y>>
        ELSE LET lo == (x * h) \div w
                 hi == IF lo * w = x * h THEN lo ELSE lo + 1
                 \* key(n) = 0 if n = 0 else |w/h - x/n|
                 pick == IF lo = 0 THEN lo
                         ELSE IF Abs(w * lo - x * h) * hi <= Abs(w * hi - x * h) * lo
                         THEN lo ELSE hi
             IN  <<x, Max(pick, 1)>>

\* Image.thumbnail of Pillow 6: width first, then height, truncating
ThumbnailLegacy(size, box) ==
    LET x1 == IF size[1] > box[1] THEN box[1] ELSE size[1]
        y1 == IF size[1] > box[1]
              THEN Max((size[2] * box[1]) \div size[1], 1) ELSE size[2]
        x2 == IF y1 > box[2] THEN Max((x1 * box[2]) \div y1, 1) ELSE x1
        y2 == IF y1 > box[2] THEN box[2] ELSE y1
    IN  <<x2, y2>>

\* img.resize(box) in place of img.thumbnail(box)
ResizeToBox(size, box, legacy) == box

\* img.thumbnail(box, RESAMPLE_FILTER); line 11 accepts both generations of Pillow
Thumbnail(size, box, legacy) ==
    IF legacy THEN ThumbnailLegacy(size, box) ELSE ThumbnailCurrent(size, box)

\* ImageOps.exif_transpose: EXIF orientations 5 to 8 exchange width and height
ExifTranspose(img) ==
    IF img.rotated THEN <<img.size[2], img.size[1]>> ELSE img.size

FailedImage == [ok |-> FALSE, size |-> <<0, 0>>, format |-> "none"]

CoverBox == TARGET_RES_COVER

\* process_image_cover: the value returned and the file saved.  img.ok is
\* whether Image.open and the transforms succeed, writable whether makedirs
\* and save do.
process_image_cover(img, writable, legacy) ==
    IF img.ok /\ writable
    THEN [ok |-> TRUE, format |-> "JPEG",
          size |-> Thumbnail(ExifTranspose(img), CoverBox, legacy)]
    ELSE FailedImage

\* process_image_fanart: ImageOps.fit yields exactly the target resolution
process_image_fanart(img, writable, legacy) ==
    IF img.ok /\ writable
    THEN [ok |-> TRUE, format |-> "JPEG", size |-> TARGET_RES_FANART]
    ELSE FailedImage

MarqueeBox == TARGET_RES_LOGO

\* process_image_marquee: no exif_transpose, no conversion
process_image_marquee(img, writable, legacy) ==
    IF img.ok /\ writable
    THEN [ok |-> TRUE, format |-> "PNG",
          size |-> Thumbnail(img.size, MarqueeBox, legacy)]
    ELSE FailedImage

-----------------------------------------------------------------------------
(* get_launchbox_xml *)

DotXml == <<".","x","m","l">>
GamelistXml == <<"g","a","m","e","l","i","s","t",".","x","m","l">>

\* fnmatch of a name against "*.xml": glob skips names that start with a dot,
\* and compares after os.path.normcase, which folds case on Windows only
GlobXml(name, windows) ==
    /\ name # <<>>
    /\ name[1] # "."
    /\ EndsWith(IF windows THEN Lower(name) ELSE name, DotXml)

\* line 92 without the test
IsReservedNameNever(name) == FALSE

\* the reserved output name test of line 92
IsReservedName(name) == EndsWith(Lower(name), GamelistXml)

\* listing: the names in the directory, in the order the file system lists them
get_launchbox_xml(listing, windows) ==
    LET hit(i) == GlobXml(listing[i], windows) /\ ~IsReservedName(listing[i])
    IN  IF \E i \in 1..Len(listing) : hit(i)
        THEN listing[CHOOSE i \in 1..Len(listing) :
                        hit(i) /\ \A j \in 1..(i-1) : ~hit(j)]
        ELSE None

-----------------------------------------------------------------------------
(* process_directory: the metadata of one game *)

\* a Game element: a function from these tags to Absent (no such child),
\* None (a child without text) or the child's text
InputTags == {"ApplicationPath", "Title", "Notes", "Developer", "Publisher",
              "Genre", "MaxPlayers", "ReleaseDate"}

CopiedTags == <<"Developer", "Publisher", "Genre", "MaxPlayers">>

\* tag.lower() for the tags of line 146
LowerTag(tag) ==
    CASE tag = "Developer"  -> "developer"
      [] tag = "Publisher"  -> "publisher"
      [] tag = "Genre"      -> "genre"
      [] tag = "MaxPlayers" -> "maxplayers"

\* rom_map.get(f) is None
NoGame == [none |-> TRUE]

\* rom_map of lines 110-114: a later Game with the same basename replaces an
\* earlier one; the result is the Game for name f, or NoGame
RomMapGet(games, f, windows) ==
    LET keyed(i) == /\ games[i]["ApplicationPath"] # Absent
                    /\ Truthy(games[i]["ApplicationPath"])
                    /\ Basename(games[i]["ApplicationPath"], windows) = f
    IN  IF \E i \in 1..Len(games) : keyed(i)
        THEN games[CHOOSE i \in 1..Len(games) :
                      keyed(i) /\ \A j \in (i+1)..Len(games) : ~keyed(j)]
        ELSE NoGame

MidnightSuffix == <<"T","0","0","0","0","0","0">>

DateMinLen == 10

\* line 152 with > in place of >=
HasReleaseDateOffByOne(rel) == rel # Absent /\ Truthy(rel) /\ Len(rel) > DateMinLen

\* lines 151-153: whether a releasedate is emitted, and its text
HasReleaseDate(rel) == rel # Absent /\ Truthy(rel) /\ Len(rel) >= DateMinLen

ReleaseDateText(rel) ==
    SelectSeq(SubSeq(rel, 1, DateMinLen), LAMBDA c : c # "-") \o MidnightSuffix

\* line 135-140: the title of a game
TitleText(f, game_node) ==
    IF game_node # NoGame /\ game_node["Title"] # Absent
    THEN game_node["Title"]
    ELSE Splitext(f)[1]

\* line 143-144
DescFields(game_node) ==
    IF game_node["Notes"] # Absent THEN << <<"desc", game_node["Notes"]>> >> ELSE <<>>

\* line 146-149 for one tag
CopiedField(game_node, tag) ==
    IF game_node[tag] # Absent /\ Truthy(game_node[tag])
    THEN << <<LowerTag(tag), game_node[tag]>> >>
    ELSE <<>>

\* the fields of the game element before the image fields (lines 131-153, 185),
\* each a pair of the tag and the text
MetaFields(f, game_node) ==
    LET path == << <<"path", <<".", "/">> \o f>> >>
    IN  IF game_node # NoGame
        THEN path
             \o << <<"name", TitleText(f, game_node)>> >>
             \o DescFields(game_node)
             \o CopiedField(game_node, CopiedTags[1])
             \o CopiedField(game_node, CopiedTags[2])
             \o CopiedField(game_node, CopiedTags[3])
             \o CopiedField(game_node, CopiedTags[4])
             \o (IF HasReleaseDate(game_node["ReleaseDate"])
                 THEN << <<"releasedate", ReleaseDateText(game_node["ReleaseDate"])>> >>
                 ELSE <<>>)
        ELSE path \o << <<"name", Splitext(f)[1]>> >>

-----------------------------------------------------------------------------
(* process_directory: the images of one game *)

game_exts == { <<".","c","h","d">>, <<".","n","6","4">>, <<".","z","6","4">>, <<".","v","6","4">>,
               <<".","g","d","i">>, <<".","c","d","i">>, <<".","i","s","o">>, <<".","c","u","e">>,
               <<".","b","i","n">>, <<".","i","m","g">>, <<".","m","d","f">>, <<".","p","b","p">> }

CoversDir == <<".","/","i","m","a","g","e","s","/","c","o","v","e","r","s","/">>
FanartDir == <<".","/","i","m","a","g","e","s","/","f","a","n","a","r","t","/">>
MarqueesDir == <<".","/","i","m","a","g","e","s","/","m","a","r","q","u","e","e","s","/">>
DotJpg == <<".","j","p","g">>
DotPng == <<".","p","n","g">>

Categories == {"Front", "Screenshot", "Clear Logo"}

\* dest_rel of lines 162, 170 and 178
DestCover(rom_base) == CoversDir \o rom_base \o DotJpg
DestFanart(rom_base) == FanartDir \o rom_base \o DotJpg
DestMarquee(rom_base) == MarqueesDir \o rom_base \o DotPng

\* the file of the walk that find_image returned
SourceAt(art, type_folder, src) ==
    LET walk == art[type_folder].walk
    IN  walk[CHOOSE i \in 1..Len(walk) : JoinPath(walk[i].root, walk[i].file) = src]

\* lines 164, 172, 180 without the test of the value returned
FieldAddedIgnoringResult(src, result) == src # None

\* whether the image field is added after find_image returned src and the
\* process_image_* call returned result (lines 161-165, 169-173, 177-181)
FieldAdded(src, result) == src # None /\ result.ok

\* the process_image_* call of the block that adds the field tag
ProcessImage(tag, img, writable, legacy) ==
    CASE tag = "image" -> process_image_cover(img, writable, legacy)
      [] tag = "fanart" -> process_image_fanart(img, writable, legacy)
      [] tag = "marquee" -> process_image_marquee(img, writable, legacy)

\* the field added and the file written by a block, given what find_image
\* and process_image_* returned
BlockOutcome(tag, dest, src, result) ==
    [fields |-> IF FieldAdded(src, result) THEN << <<tag, dest>> >> ELSE <<>>,
     writes |-> IF src # None /\ result.ok
                THEN << [dest |-> dest, src |-> src,
                         size |-> result.size, format |-> result.format] >>
                ELSE <<>>]

\* a block after its find_image call returned src
BlockAfterFind(folder, legacy, type_folder, tag, dest, src) ==
    BlockOutcome(tag, dest, src,
                 IF src = None THEN FailedImage
                 ELSE ProcessImage(tag, SourceAt(folder.art, type_folder, src),
                                   folder.imagesWritable, legacy))

\* one of the three blocks of lines 159-181
ImageBlock(folder, legacy, type_folder, tag, sanitized, name, dest) ==
    BlockAfterFind(folder, legacy, type_folder, tag, dest,
                   find_image(folder.art, type_folder, sanitized, name))

\* the game element and the files written, from the parts in code order
GameOutcome(meta, cover, fanart, marquee) ==
    [fields |-> meta \o cover.fields \o fanart.fields \o marquee.fields,
     writes |-> cover.writes \o fanart.writes \o marquee.writes]

\* lines 156-181 with the locals sanitized, name and rom_base
ProcessImages(folder, legacy, meta, sanitized, name, rom_base) ==
    GameOutcome(meta,
                ImageBlock(folder, legacy, "Front", "image",
                           sanitized, name, DestCover(rom_base)),
                ImageBlock(folder, legacy, "Screenshot", "fanart",
                           sanitized, name, DestFanart(rom_base)),
                ImageBlock(folder, legacy, "Clear Logo", "marquee",
                           sanitized, name, DestMarquee(rom_base)))

\* one iteration of the loop of lines 125-187 for a file with a game
\* extension: the game element and the image files written, in order
ProcessGame(folder, legacy, f, game_node) ==
    IF game_node = NoGame
    THEN [fields |-> MetaFields(f, game_node), writes |-> <<>>]
    ELSE ProcessImages(folder, legacy, MetaFields(f, game_node),
                       sanitize_lb_title(TitleText(f, game_node)),
                       Splitext(f)[1], Splitext(f)[1])

\* img.save(dest_path, ...): the file at dest is created or replaced
RECURSIVE SaveImages(_, _)
SaveImages(images, writes) ==
    IF writes = <<>> THEN images
    ELSE SaveImages({i \in images : i.dest # Head(writes).dest} \cup {Head(writes)},
                    Tail(writes))

-----------------------------------------------------------------------------
(* The script: the main loop and process_directory *)

excludes == { <<"S","y","s","t","e","m"," ","V","o","l","u","m","e"," ","I","n","f","o","r","m","a","t","i","o","n">>, <<"$","R","E","C","Y","C","L","E",".","B","I","N">>, <<"i","m","a","g","e","s">>, <<"C","o","n","f","i","g">> }

NoCall == [d |-> <<>>, lb_xml |-> None, root |-> <<>>, files |-> <<>>,
           fi |-> 0, entries |-> <<>>, count |-> 0]

\* line 211-212: whether the main loop passes d to process_directory
Qualifies(d) ==
    /\ d \notin excludes
    /\ ~StartsWith(d, <<".">>)
    /\ get_launchbox_xml(fs[d].listing, nt) # None

\* lines 210-212: a directory that is excluded or holds no metadata XML
MainSkip ==
    /\ pc = "loop"
    /\ di <= Len(dirs)
    /\ ~Qualifies(dirs[di])
    /\ di' = di + 1
    /\ UNCHANGED <<nt, oldPillow, fs, fs0, dirs, pc, found, cur, runs, arg, ret>>

\* lines 213, 97-101: process_directory is entered and selects its XML
MainCall ==
    /\ pc = "loop"
    /\ di <= Len(dirs)
    /\ Qualifies(dirs[di])
    /\ pc' = "parse"
    /\ cur' = [NoCall EXCEPT !.d = dirs[di],
                             !.lb_xml = get_launchbox_xml(fs[dirs[di]].listing, nt)]
    /\ UNCHANGED <<nt, oldPillow, fs, fs0, dirs, di, found, runs, arg, ret>>

\* lines 106-108 with an empty document in place of the return
ParseErrorContinues ==
    /\ pc = "parse"
    /\ fs[cur.d].content[cur.lb_xml].kind = "malformed"
    /\ pc' = "games"
    /\ cur' = [cur EXCEPT !.root = <<>>,
                          !.files = Sorted(Range(fs[cur.d].listing)),
                          !.fi = 1]
    /\ UNCHANGED <<nt, oldPillow, fs, fs0, dirs, di, found, runs, arg, ret>>

\* lines 103-108, 214: ET.parse raises, process_directory returns
ParseError ==
    /\ pc = "parse"
    /\ fs[cur.d].content[cur.lb_xml].kind = "malformed"
    /\ pc' = "loop"
    /\ cur' = NoCall
    /\ di' = di + 1
    /\ found' = found + 1
    /\ UNCHANGED <<nt, oldPillow, fs, fs0, dirs, runs, arg, ret>>

\* root.findall('Game') of line 111 on a document that parses: a document
\* without Game elements (a gamelist.xml, whose elements are named game) has none
FindAllGames(doc) == IF doc.kind = "launchbox" THEN doc.games ELSE <<>>

\* lines 103-124: the XML parses; the files of the folder are listed and sorted
ParseOk ==
    /\ pc = "parse"
    /\ fs[cur.d].content[cur.lb_xml].kind # "malformed"
    /\ pc' = "games"
    /\ cur' = [cur EXCEPT !.root = FindAllGames(fs[cur.d].content[cur.lb_xml]),
                          !.files = Sorted(Range(fs[cur.d].listing)),
                          !.fi = 1]
    /\ UNCHANGED <<nt, oldPillow, fs, fs0, dirs, di, found, runs, arg, ret>>

\* the effect of an iteration on a file with a game extension
GameAdded(game) ==
    /\ cur' = [cur EXCEPT !.fi = @ + 1,
                          !.entries = Append(@, game.fields),
                          !.count = @ + 1]
    /\ fs' = [fs EXCEPT ![cur.d].images = SaveImages(@, game.writes)]

\* lines 125-187: one iteration of the loop over the files
GameStep ==
    /\ pc = "games"
    /\ cur.fi <= Len(cur.files)
    /\ IF Lower(Splitext(cur.files[cur.fi])[2]) \notin game_exts
       THEN /\ cur' = [cur EXCEPT !.fi = @ + 1]
            /\ fs' = fs
       ELSE GameAdded(ProcessGame(fs[cur.d], oldPillow, cur.files[cur.fi],
                                  RomMapGet(cur.root, cur.files[cur.fi], nt)))
    /\ UNCHANGED <<nt, oldPillow, fs0, dirs, pc, di, found, runs, arg, ret>>

\* the document written at line 196, with the XML it was made from and the
\* run that wrote it
Gamelist(entries, lb_xml, run) ==
    [kind |-> "gamelist", entries |-> entries, from |-> lb_xml, run |-> run]

\* lines 189-197, 214: gamelist.xml is written.  A new directory entry appears
\* somewhere in the listing; the other entries keep their order.
SaveXml ==
    /\ pc = "games"
    /\ cur.fi > Len(cur.files)
    /\ fs[cur.d].xmlWritable
    /\ \E front \in BOOLEAN :
         LET old == fs[cur.d].listing
             listing == IF GamelistXml \in Range(old) THEN old
                        ELSE IF front THEN <<GamelistXml>> \o old
                        ELSE Append(old, GamelistXml)
             doc == Gamelist(cur.entries, cur.lb_xml, runs)
         IN  fs' = [fs EXCEPT ![cur.d].listing = listing,
                              ![cur.d].content =
                                  [n \in Range(listing) |->
                                      IF n = GamelistXml THEN doc
                                      ELSE fs[cur.d].content[n]]]
    /\ pc' = "loop"
    /\ cur' = NoCall
    /\ di' = di + 1
    /\ found' = found + 1
    /\ UNCHANGED <<nt, oldPillow, fs0, dirs, runs, arg, ret>>

\* line 196 raises (gamelist.xml cannot be opened for writing): nothing
\* catches the exception and the script ends with a traceback
SaveXmlError ==
    /\ pc = "games"
    /\ cur.fi > Len(cur.files)
    /\ ~fs[cur.d].xmlWritable
    /\ pc' = "crashed"
    /\ UNCHANGED <<nt, oldPillow, fs, fs0, dirs, di, found, cur, runs, arg, ret>>

\* lines 216-219: the loop is over, "Done." is printed
Finish ==
    /\ pc = "loop"
    /\ di > Len(dirs)
    /\ pc' = "done"
    /\ UNCHANGED <<nt, oldPillow, fs, fs0, dirs, di, found, cur, runs, arg, ret>>

MaxRuns == 2

\* lines 199-209: the script is started again on the tree it left
Rerun ==
    /\ pc = "done"
    /\ runs < MaxRuns
    /\ pc' = "loop"
    /\ di' = 1
    /\ found' = 0
    /\ runs' = runs + 1
    /\ fs0' = fs
    /\ UNCHANGED <<nt, oldPillow, fs, dirs, cur, arg, ret>>

Next ==
    \/ MainSkip
    \/ MainCall
    \/ ParseError
    \/ ParseOk
    \/ GameStep
    \/ SaveXml
    \/ SaveXmlError
    \/ Finish
    \/ Rerun

-----------------------------------------------------------------------------
(* The directory trees the script is run on *)

LbXml == <<"l","b",".","x","m","l">>
BadXml == <<"b","a","d",".","x","m","l">>
UpperXml == <<"P","S","X",".","X","M","L">>
ExportGamelistXml == <<"M","y"," ","G","a","m","e","L","i","s","t",".","x","m","l">>
XBin == <<"X",".","b","i","n">>
XCue == <<"X",".","c","u","e">>
YIso == <<"Y",".","I","S","O">>
NotesTxt == <<"n","o","t","e","s",".","t","x","t">>
ZBin == <<"Z",".","b","i","n">>

Game(app, title, notes, developer, publisher, genre, maxplayers, releasedate) ==
    [ApplicationPath |-> app, Title |-> title, Notes |-> notes,
     Developer |-> developer, Publisher |-> publisher, Genre |-> genre,
     MaxPlayers |-> maxplayers, ReleaseDate |-> releasedate]

GameA == Game(XBin, <<"A",":","b">>, None, <<"D","e","v">>, Absent, None, <<"2">>, <<"1","9","9","9","-","0","1","-","0","2">>)
GameB == Game(<<"r","o","m","s","\\","X",".","c","u","e">>, <<"C","d">>, <<"H","i">>, None, <<"P","u","b">>, Absent, Absent, <<"1","9","9","9">>)
GameC == Game(<<"r","o","m","s","/","Y",".","I","S","O">>, Absent, Absent, Absent, Absent, <<"R","p","g">>, None,
              <<"1","9","9","9","-","0","1","-","0","2","T","0","0",":","0","0",":","0","0","-","0","7",":","0","0">>)
GameD == Game(XBin, None, Absent, Absent, Absent, Absent, Absent, None)
GameE == Game(XCue, <<"C","d">>, Absent, <<"D","e","v">>, Absent, Absent, Absent, Absent)
GameF == Game(None, <<"A",":","b">>, <<"H","i">>, Absent, Absent, Absent, Absent, Absent)

GamePool == {GameA, GameB, GameD}

MaxGames == 2

\* the documents with at most MaxGames Game elements
GameLists == UNION { [1..n -> GamePool] : n \in 0..MaxGames }

Image(root, file, ok, w, h, rotated) ==
    [root |-> root, file |-> file, ok |-> ok, size |-> <<w, h>>, rotated |-> rotated]

FrontDir == <<"F","r","o","n","t">>
FrontSubDir == <<"F","r","o","n","t","/","s","u","b">>
ScreenshotDir == <<"S","c","r","e","e","n","s","h","o","t">>
LogoDir == <<"C","l","e","a","r"," ","L","o","g","o">>

FrontWalks ==
    { NoDir,
      Dir(<< Image(FrontDir, <<"A","_","b","-","0","1",".","j","p","g">>, TRUE, 1000, 600, FALSE),
         Image(FrontDir, <<"C","d",".","j","p","g">>, TRUE, 300, 400, TRUE) >>),
      Dir(<< Image(FrontDir, <<"C","d",".","t","x","t">>, TRUE, 10, 10, FALSE),
         Image(FrontDir, <<"C","d",".","J","P","E","G">>, FALSE, 10, 10, FALSE),
         Image(FrontSubDir, <<"C","d",".","j","p","e","g">>, TRUE, 10, 10, FALSE),
         Image(FrontSubDir, <<"A"," ","b",".","P","N","G">>, TRUE, 600, 1000, TRUE) >>) }

ScreenshotWalks ==
    { NoDir,
      Dir(<< Image(ScreenshotDir, <<"X","-","0","1",".","g","i","f">>, TRUE, 640, 480, FALSE) >>),
      Dir(<< Image(ScreenshotDir, <<"C","d",".","p","n","g">>, FALSE, 640, 480, FALSE),
         Image(ScreenshotDir, <<"A","_","b",".","j","p","g">>, TRUE, 1920, 1080, FALSE) >>) }

LogoWalks ==
    { NoDir,
      Dir(<< Image(LogoDir, <<"A","_","b",".","p","n","g">>, TRUE, 600, 100, FALSE) >>),
      Dir(<< Image(LogoDir, <<"x","-","0","1",".","p","n","g">>, TRUE, 100, 50, FALSE),
         Image(LogoDir, <<"C","d","-","0","1",".","j","p","e","g">>, TRUE, 100, 50, TRUE) >>) }

Arts == { [c \in Categories |-> CASE c = "Front" -> f
                                  [] c = "Screenshot" -> s
                                  [] c = "Clear Logo" -> l] :
            f \in FrontWalks, s \in ScreenshotWalks, l \in LogoWalks }

NoArt == [c \in Categories |-> NoDir]

StdArt == CHOOSE a \in Arts :
            /\ Len(a["Front"].walk) = 2
            /\ Len(a["Screenshot"].walk) = 2
            /\ Len(a["Clear Logo"].walk) = 2

Rom == [kind |-> "rom"]
Other == [kind |-> "other"]
Malformed == [kind |-> "malformed"]
LaunchBox(games) == [kind |-> "launchbox", games |-> games]

\* what an earlier run on other inputs left behind
StaleGamelist ==
    Gamelist(<< << <<"path", <<".", "/">> \o ZBin>>, <<"name", <<"Z">>>> >> >>, LbXml, 0)
StaleImages ==
    { [dest |-> DestCover(<<"Z">>), src |-> JoinPath(FrontDir, <<"Z",".","j","p","g">>),
       size |-> <<100, 100>>, format |-> "JPEG"] }

RomSets == { <<XBin, XCue>>, <<NotesTxt, XBin>>, <<YIso>> }

\* a folder holding the files of listing (name -> content)
Folder(listing, content, art, images, xmlWritable, imagesWritable) ==
    [listing |-> listing,
     content |-> [n \in Range(listing) |-> content[n]],
     art |-> art, images |-> images,
     xmlWritable |-> xmlWritable, imagesWritable |-> imagesWritable]

\* the content of the files of the pools, given the export's document
Content(doc) ==
    [n \in {LbXml, BadXml, UpperXml, ExportGamelistXml, GamelistXml,
            XBin, XCue, YIso, NotesTxt} |->
        CASE n \in {LbXml, UpperXml, ExportGamelistXml} -> doc
          [] n = BadXml -> Malformed
          [] n = GamelistXml -> StaleGamelist
          [] n = NotesTxt -> Other
          [] OTHER -> Rom]

\* folders that differ in their metadata
MetadataFolders ==
    { Folder(<<LbXml>> \o roms, Content(LaunchBox(games)), StdArt, {}, TRUE, TRUE) :
        roms \in RomSets, games \in GameLists }

\* folders that differ in their artwork
ArtFolders ==
    { Folder(<<LbXml, XBin, XCue>>, Content(LaunchBox(<<GameF, GameA, GameE>>)),
             art, {}, TRUE, TRUE) : art \in Arts }
    \cup { Folder(<<LbXml, XBin, XCue>>, Content(LaunchBox(<<GameF, GameA, GameE>>)),
                 StdArt, {}, TRUE, FALSE) }

XmlListings ==
    { <<LbXml>>, <<BadXml>>, <<GamelistXml, LbXml>>, <<GamelistXml, BadXml>>,
      <<LbXml, BadXml>>, <<BadXml, LbXml>>, <<ExportGamelistXml>>, <<UpperXml>>,
      <<GamelistXml>>, <<>> }

\* folders that differ in their XML files and in what can be written
XmlFolders ==
    { Folder(xmls \o <<XBin, XCue>>, Content(LaunchBox(<<GameF, GameA, GameE>>)),
             StdArt, IF GamelistXml \in Range(xmls) THEN StaleImages ELSE {}, w, TRUE) :
        xmls \in XmlListings, w \in BOOLEAN }

MainFolders == MetadataFolders \cup ArtFolders \cup XmlFolders

\* the folder next to it
SiblingFolders ==
    { Folder(xmls \o <<YIso>>, Content(LaunchBox(<<GameC>>)), NoArt, {}, TRUE, TRUE) :
        xmls \in {<<LbXml>>, <<BadXml>>, <<>>} }
    \cup { Folder(<<LbXml, YIso>>, Content(LaunchBox(<<GameC>>)), NoArt, {}, FALSE, TRUE) }

PlainFolder == Folder(<<LbXml, YIso>>, Content(LaunchBox(<<GameC>>)), NoArt, {}, TRUE, TRUE)

Psx == <<"p","s","x">>
N64 == <<"n","6","4">>
Hidden == <<".","c","a","c","h","e">>
Images == <<"i","m","a","g","e","s">>

DirListings == { <<Hidden, Psx, Images, N64>>, <<N64, Images, Psx, Hidden>> }

Trees ==
    { [d \in {Psx, N64, Hidden, Images} |->
          CASE d = Psx -> m [] d = N64 -> s [] OTHER -> PlainFolder] :
        m \in MainFolders, s \in SiblingFolders }

Init ==
    /\ nt \in BOOLEAN
    /\ oldPillow = FALSE
    /\ fs \in Trees
    /\ fs0 = fs
    /\ dirs \in DirListings
    /\ pc = "loop"
    /\ di = 1
    /\ found = 0
    /\ cur = NoCall
    /\ runs = 1
    /\ arg = None
    /\ ret = None

Spec == Init /\ [][Next]_vars

-----------------------------------------------------------------------------
(* find_image on its own *)

MaxFiles == 2

FindNames ==
    { <<"A","_","b","-","0","1",".","j","p","g">>, <<"A","_","b",".","P","N","G">>, <<"X","-","0","1",".","g","i","f">>, <<"A"," ","b",".","j","p","e","g">>, <<"A","_","b",".","t","x","t">>,
      <<"a","_","b",".","j","p","g">>, <<"-","0","1",".","p","n","g">>, <<".","j","p","g">>, <<"A","_","b">> }

\* the subtrees with at most MaxFiles files: the first in the category folder
\* itself, the others in a subfolder
FindWalks ==
    UNION { { [i \in 1..n |-> Image(IF i = 1 THEN FrontDir ELSE FrontSubDir,
                                    names[i], TRUE, 10, 10, FALSE)] :
                names \in [1..n -> FindNames] } : n \in 0..MaxFiles }

FindTitles == { <<"A",":","b">>, <<"A","_","b">>, <<"C","d">>, None }
FindRoms == { <<"X">>, <<"Y">> }

\* the script's own variables while a function is studied on its own
ParkedScript ==
    /\ nt = FALSE /\ oldPillow = FALSE /\ fs = <<>> /\ fs0 = <<>> /\ dirs = <<>>
    /\ di = 0 /\ found = 0 /\ cur = NoCall /\ runs = 0

InitFind ==
    /\ arg \in [dir : {NoDir} \cup {Dir(w) : w \in FindWalks},
                title : FindTitles, rom : FindRoms]
    /\ ret = None
    /\ pc = "call"
    /\ ParkedScript

\* the base directory with the category folder arg.dir
FindArt == [c \in Categories |-> IF c = "Front" THEN arg.dir ELSE NoDir]

\* the call of line 160
FindImage ==
    /\ pc = "call"
    /\ ret' = find_image(FindArt, "Front", sanitize_lb_title(arg.title), arg.rom)
    /\ pc' = "return"
    /\ UNCHANGED <<nt, oldPillow, fs, fs0, dirs, di, found, cur, runs, arg>>

NextFind == FindImage

SpecFind == InitFind /\ [][NextFind]_vars

-----------------------------------------------------------------------------
(* The metadata of a game on its own *)

TextValues(text) == {Absent, None, text}

MetaGames ==
    { Game(XBin, title, notes, developer, publisher, genre, maxplayers, releasedate) :
        title \in TextValues(<<"A",":","b">>), notes \in TextValues(<<"H","i">>),
        developer \in TextValues(<<"D","e","v">>), publisher \in TextValues(<<"P","u","b">>),
        genre \in TextValues(<<"R","p","g">>), maxplayers \in TextValues(<<"2">>),
        releasedate \in TextValues(<<"1","9","9","9">>) \cup {<<"1","9","9","9","-","0","1","-","0","2">>} }

InitMeta ==
    /\ arg \in [f : {XBin, YIso}, game : {NoGame} \cup MetaGames]
    /\ ret = None
    /\ pc = "call"
    /\ ParkedScript

\* lines 131-153, 185 for the file arg.f and the Game rom_map holds for it
BuildEntry ==
    /\ pc = "call"
    /\ ret' = MetaFields(arg.f, arg.game)
    /\ pc' = "return"
    /\ UNCHANGED <<nt, oldPillow, fs, fs0, dirs, di, found, cur, runs, arg>>

NextMeta == BuildEntry

SpecMeta == InitMeta /\ [][NextMeta]_vars

MaxDateLen == 12

DateChars == {"1", "-"}

\* ReleaseDate texts: every text of at most MaxDateLen characters of
\* DateChars, and some texts as LaunchBox and other tools write them
DateTexts ==
    UNION { [1..n -> DateChars] : n \in 1..MaxDateLen }
    \cup { <<"1","9","9","9","-","0","1","-","0","2">>, <<"1","9","9","9","-","0","1","-","0","2","T","0","0",":","0","0",":","0","0","-","0","7",":","0","0">>, <<"1","9","9","9","-","1","-","2">>,
           <<"0","1","/","0","2","/","1","9","9","9">>, <<"0","1","/","0","2","/","1","9","9","9"," ","0","0",":","0","0">>, <<"1","9","9","9">> }

InitDate ==
    /\ arg \in [f : {XBin},
                game : { Game(XBin, <<"A",":","b">>, Absent, None, Absent, Absent, Absent, rel) :
                           rel \in {Absent, None} \cup DateTexts }]
    /\ ret = None
    /\ pc = "call"
    /\ ParkedScript

SpecDate == InitDate /\ [][NextMeta]_vars

-----------------------------------------------------------------------------
(* The image transforms on their own *)

MaxSmall == 6
MaxDelta == 2

Dimensions ==
    (1..MaxSmall)
    \cup ((TARGET_H_LOGO - MaxDelta)..(TARGET_H_LOGO + MaxDelta))
    \cup ((TARGET_W_COVER - MaxDelta)..(TARGET_W_COVER + MaxDelta))
    \cup {1000, 1024, 4000}

InitThumb ==
    /\ arg \in [ok : BOOLEAN, size : Dimensions \X Dimensions, rotated : BOOLEAN]
    /\ oldPillow \in BOOLEAN
    /\ ret = FailedImage
    /\ pc \in {"cover", "fanart", "marquee"}
    /\ nt = FALSE /\ fs = <<>> /\ fs0 = <<>> /\ dirs = <<>>
    /\ di = 0 /\ found = 0 /\ cur = NoCall /\ runs = 0

\* the call of line 164
ProcessCover ==
    /\ pc = "cover"
    /\ ret' = process_image_cover(arg, TRUE, oldPillow)
    /\ pc' = "cover done"
    /\ UNCHANGED <<nt, oldPillow, fs, fs0, dirs, di, found, cur, runs, arg>>

\* the call of line 172
ProcessFanart ==
    /\ pc = "fanart"
    /\ ret' = process_image_fanart(arg, TRUE, oldPillow)
    /\ pc' = "fanart done"
    /\ UNCHANGED <<nt, oldPillow, fs, fs0, dirs, di, found, cur, runs, arg>>

\* the call of line 180
ProcessMarquee ==
    /\ pc = "marquee"
    /\ ret' = process_image_marquee(arg, TRUE, oldPillow)
    /\ pc' = "marquee done"
    /\ UNCHANGED <<nt, oldPillow, fs, fs0, dirs, di, found, cur, runs, arg>>

NextThumb == ProcessCover \/ ProcessFanart \/ ProcessMarquee

SpecThumb == InitThumb /\ [][NextThumb]_vars

-----------------------------------------------------------------------------
(* Properties *)

HasField(e, tag) == \E i \in 1..Len(e) : e[i][1] = tag

\* the text of the first field of e with this tag
FieldText(e, tag) == e[CHOOSE i \in 1..Len(e) : e[i][1] = tag /\ \A j \in 1..(i-1) : e[j][1] # tag][2]

FieldCount(e, tag) == Cardinality({i \in 1..Len(e) : e[i][1] = tag})

Digits == {"0","1","2","3","4","5","6","7","8","9"}

\* ---- C1 ----

\* what find_image received in a state of SpecFind
C1Title == sanitize_lb_title(arg.title)
C1Stems == { C1Title \o <<"-","0","1">>, C1Title, arg.rom \o <<"-","0","1">>, ReplaceChar(C1Title, "_", " ") }
C1Good(file) ==
    /\ Lower(Splitext(file)[2]) \in { <<".","j","p","g">>, <<".","j","p","e","g">>, <<".","p","n","g">>, <<".","g","i","f">> }
    /\ Splitext(file)[1] \in C1Stems

\* C1: find_image returns a path if and only if the category folder exists and
\* its subtree holds a file with an accepted extension (in any case) whose stem
\* equals one of the four candidates; the path returned is such a file; the
\* result is None when the category folder is absent.
C1_FindImageIffMatch ==
    pc = "return" =>
        /\ (ret # None) <=>
              (arg.dir.exists /\ \E i \in 1..Len(arg.dir.walk) : C1Good(arg.dir.walk[i].file))
        /\ ret # None =>
              \E i \in 1..Len(arg.dir.walk) :
                  /\ C1Good(arg.dir.walk[i].file)
                  /\ ret = arg.dir.walk[i].root \o <<"/">> \o arg.dir.walk[i].file
        /\ ~arg.dir.exists => ret = None

\* a file in a subfolder, with an upper-case extension, found after a file
\* that does not match
C1_Witness ==
    /\ pc = "return"
    /\ arg.title = <<"A",":","b">>
    /\ Len(arg.dir.walk) = 2
    /\ arg.dir.walk[1].file = <<"a","_","b",".","j","p","g">>
    /\ arg.dir.walk[2].file = <<"A","_","b",".","P","N","G">>
    /\ ret = <<"F","r","o","n","t","/","s","u","b","/","A","_","b",".","P","N","G">>

\* ---- C5 ----

C5Rel == arg.game["ReleaseDate"]
C5HasText == C5Rel # Absent /\ C5Rel # None
C5IsoPrefix ==
    /\ C5HasText
    /\ Len(C5Rel) >= 10
    /\ \A i \in 1..10 : IF i \in {5, 8} THEN C5Rel[i] = "-" ELSE C5Rel[i] \in Digits
C5Emitted == HasField(ret, "releasedate")
C5Value == FieldText(ret, "releasedate")

\* C5 as stated: a releasedate is emitted only for a text with a YYYY-MM-DD
\* prefix, and is always 8 digits followed by T000000.
C5_IsoOnly ==
    pc = "return" =>
        /\ C5Emitted => C5IsoPrefix
        /\ C5Emitted =>
              /\ Len(C5Value) = 15
              /\ \A i \in 1..8 : C5Value[i] \in Digits
              /\ SubSeq(C5Value, 9, 15) = <<"T","0","0","0","0","0","0">>
        /\ (~C5HasText \/ Len(C5Rel) < 10) => ~C5Emitted

\* C5 (amended): a releasedate is emitted exactly when the ReleaseDate text has
\* at least 10 characters; its value is the first 10 characters without their
\* dashes, followed by T000000; for a text that starts YYYY-MM-DD that is
\* YYYYMMDD followed by T000000, 15 characters.
C5_LengthOnly ==
    pc = "return" =>
        /\ C5Emitted <=> (C5HasText /\ Len(C5Rel) >= 10)
        /\ FieldCount(ret, "releasedate") <= 1
        /\ C5Emitted =>
              /\ C5Value = SelectSeq(SubSeq(C5Rel, 1, 10), LAMBDA c : c # "-") \o <<"T","0","0","0","0","0","0">>
              /\ C5IsoPrefix =>
                    /\ Len(C5Value) = 15
                    /\ C5Value = SubSeq(C5Rel, 1, 4) \o SubSeq(C5Rel, 6, 7)
                                 \o SubSeq(C5Rel, 9, 10) \o <<"T","0","0","0","0","0","0">>

\* a timestamp longer than 10 characters, cut to its date
C5_Witness ==
    /\ pc = "return"
    /\ C5Rel = <<"1","9","9","9","-","0","1","-","0","2","T","0","0",":","0","0",":","0","0","-","0","7",":","0","0">>
    /\ C5Emitted
    /\ C5Value = <<"1","9","9","9","0","1","0","2","T","0","0","0","0","0","0">>

\* ---- C6 ----

C6HasTitle ==
    /\ arg.game # NoGame
    /\ arg.game["Title"] # Absent
    /\ arg.game["Title"] # None
    /\ arg.game["Title"] # <<>>

\* C6: every entry has a path and a name, the name is not empty, and it is the
\* record's title when the record has one and the ROM base filename otherwise
\* (no record, no Title element, or a Title element without text).
C6_NameNeverEmpty ==
    pc = "return" =>
        /\ FieldCount(ret, "path") = 1
        /\ FieldCount(ret, "name") = 1
        /\ FieldText(ret, "path") = <<".", "/">> \o arg.f
        /\ FieldText(ret, "name") # None
        /\ FieldText(ret, "name") # <<>>
        /\ FieldText(ret, "name") =
              IF C6HasTitle THEN arg.game["Title"] ELSE Splitext(arg.f)[1]

\* ---- C7 ----

C7Tags == { <<"Notes", "desc">>, <<"Developer", "developer">>,
            <<"Publisher", "publisher">>, <<"Genre", "genre">>,
            <<"MaxPlayers", "maxplayers">> }

\* C7: each of desc, developer, publisher, genre and maxplayers is emitted if
\* and only if its source element is present with non-empty text, and then
\* holds that text; none of them is ever emitted empty.
C7_CopiedIffNonEmpty ==
    pc = "return" =>
        \A t \in C7Tags :
            /\ HasField(ret, t[2]) <=>
                  /\ arg.game # NoGame
                  /\ arg.game[t[1]] # Absent
                  /\ arg.game[t[1]] # None
                  /\ arg.game[t[1]] # <<>>
            /\ HasField(ret, t[2]) =>
                  /\ FieldText(ret, t[2]) = arg.game[t[1]]
                  /\ FieldText(ret, t[2]) # None
                  /\ FieldText(ret, t[2]) # <<>>

\* ---- C8 ----

C8Box == IF pc = "cover done" THEN <<512, 512>> ELSE <<512, 256>>
\* the image as process_image_* transforms it: the cover after exif_transpose
C8In ==
    IF pc = "cover done" /\ arg.rotated THEN <<arg.size[2], arg.size[1]>> ELSE arg.size
C8Fits == C8In[1] <= C8Box[1] /\ C8In[2] <= C8Box[2]

\* C8: the cover output fits within 512x512 and the marquee output within
\* 512x256; an input within the box keeps its dimensions; a larger one is
\* scaled down by the one factor that makes it fit, each dimension within
\* rounding (less than 2 pixels) of the exact value.
C8_ThumbnailFitsBox ==
    (pc \in {"cover done", "marquee done"} /\ ret.ok) =>
        /\ ret.size[1] >= 1 /\ ret.size[2] >= 1
        /\ ret.size[1] <= C8Box[1]
        /\ ret.size[2] <= C8Box[2]
        /\ C8Fits => ret.size = C8In
        /\ ~C8Fits =>
              /\ ret.size[1] <= C8In[1]
              /\ ret.size[2] <= C8In[2]
              /\ IF C8Box[1] * C8In[2] <= C8Box[2] * C8In[1]
                 THEN \* the width decides: the exact size is (X, X*h/w)
                      /\ Abs(ret.size[1] - C8Box[1]) < 2
                      /\ Abs(ret.size[2] * C8In[1] - C8Box[1] * C8In[2]) < 2 * C8In[1]
                 ELSE \* the height decides: the exact size is (Y*w/h, Y)
                      /\ Abs(ret.size[2] - C8Box[2]) < 2
                      /\ Abs(ret.size[1] * C8In[2] - C8Box[2] * C8In[1]) < 2 * C8In[2]

\* a logo larger than the box in both dimensions, scaled to the box's height
C8_Witness ==
    /\ pc = "marquee done"
    /\ ret.ok
    /\ arg.size = <<1000, 1024>>
    /\ ret.size = <<250, 256>>

\* ---- the gamelists of a run of the script ----

AllDirs == Range(dirs)

HasGamelist(tree, d) == GamelistXml \in Range(tree[d].listing)

\* whether folder d of the tree holds a gamelist.xml that run r wrote
WrittenIn(tree, d, r) == HasGamelist(tree, d) /\ tree[d].content[GamelistXml].run = r

\* the game lists the script has produced: those written to a folder by a run,
\* and the one process_directory is building
Produced ==
    { [d |-> d, entries |-> fs[d].content[GamelistXml].entries,
       from |-> fs[d].content[GamelistXml].from] :
        d \in {x \in AllDirs : HasGamelist(fs, x) /\ fs[x].content[GamelistXml].run >= 1} }
    \cup (IF pc \in {"games", "crashed"}
          THEN {[d |-> cur.d, entries |-> cur.entries, from |-> cur.lb_xml]}
          ELSE {})

ImageFields == { <<"image", "Front">>, <<"fanart", "Screenshot">>,
                 <<"marquee", "Clear Logo">> }

\* the ROM file of an entry: its path without the leading ./
EntryFile(e) == SubSeq(FieldText(e, "path"), 3, Len(FieldText(e, "path")))

\* the asset find_image returns for entry e of folder d in category cat
EntryAsset(d, e, cat) ==
    find_image(fs[d].art, cat, sanitize_lb_title(FieldText(e, "name")),
               Splitext(EntryFile(e))[1])

EntryHasRecord(p, e) ==
    RomMapGet(FindAllGames(fs[p.d].content[p.from]), EntryFile(e), nt) # NoGame

GameFiles(d) == {n \in Range(fs[d].listing) : Lower(Splitext(n)[2]) \in game_exts}

\* ---- C2 ----

\* C2: when the script ends, in every game list it produced an entry holds
\* image, fanart or marquee only if find_image found the
\* asset of that category and processing it succeeded (the file can be read and
\* the destination written); an entry with a metadata record whose asset is
\* found and processed holds the field; every ROM file has its entry whether or
\* not its images could be made.
C2_ImageFieldOnlyIfProcessed ==
    pc \in {"done", "crashed"} => \A p \in Produced :
        /\ \A i \in 1..Len(p.entries) : \A t \in ImageFields :
              HasField(p.entries[i], t[1]) <=>
                  /\ EntryHasRecord(p, p.entries[i])
                  /\ EntryAsset(p.d, p.entries[i], t[2]) # None
                  /\ SourceAt(fs[p.d].art, t[2], EntryAsset(p.d, p.entries[i], t[2])).ok
                  /\ fs[p.d].imagesWritable
        /\ \A i \in 1..Len(p.entries) :
              HasField(p.entries[i], "path") /\ HasField(p.entries[i], "name")
        /\ (pc = "done" \/ p.d # cur.d) =>
              {EntryFile(p.entries[i]) : i \in 1..Len(p.entries)} = GameFiles(p.d)

\* a written entry with a cover whose screenshot was found but could not be
\* processed
C2_Witness ==
    /\ pc = "done"
    /\ \E p \in Produced : \E i \in 1..Len(p.entries) :
          /\ HasField(p.entries[i], "image")
          /\ ~HasField(p.entries[i], "fanart")
          /\ EntryAsset(p.d, p.entries[i], "Screenshot") # None
          /\ fs[p.d].imagesWritable

\* ---- C3 ----

\* the folders the main loop hands to process_directory whose XML parses
Parses(d) ==
    /\ Qualifies(d)
    /\ fs[d].content[get_launchbox_xml(fs[d].listing, nt)].kind # "malformed"

\* C3: no failure in one folder (an image that cannot be processed, an XML
\* that does not parse, a gamelist.xml that cannot be written) keeps the
\* script from the other folders: the run reaches "Done." and, by then, every
\* other folder whose XML parses has its gamelist.xml written by this run.
C3_FailuresIsolated ==
    /\ pc # "crashed"
    /\ pc = "done" =>
          \A d \in AllDirs : (Parses(d) /\ fs[d].xmlWritable) => WrittenIn(fs, d, runs)

\* ---- C4 ----

SelectedAtStart(d) == get_launchbox_xml(fs0[d].listing, nt)

MalformedAtStart(d) ==
    /\ d \notin excludes
    /\ ~StartsWith(d, <<".">>)
    /\ SelectedAtStart(d) # None
    /\ fs0[d].content[SelectedAtStart(d)].kind = "malformed"

\* what C4 says of folder d: the listing, every file (a gamelist.xml of an
\* earlier run included) and the images tree are what they were when the
\* script started, and process_directory is not in its loop over the files
UntouchedFolder(d) ==
    /\ ~(pc \in {"games", "crashed"} /\ cur.d = d)
    /\ cur.d = d => (cur.entries = <<>> /\ cur.files = <<>>)
    /\ fs[d] = fs0[d]

\* C4: a folder whose selected metadata XML is malformed is skipped: no file of
\* it is enumerated, no image is written, no gamelist.xml is created or
\* replaced.
C4_MalformedFolderUntouched ==
    \A d \in AllDirs : MalformedAtStart(d) => UntouchedFolder(d)

\* the run is over and went through a folder with a malformed XML that holds
\* the gamelist.xml and the images of an earlier run
C4_Witness ==
    /\ pc = "done"
    /\ found >= 1
    /\ MalformedAtStart(Psx)
    /\ HasGamelist(fs, Psx)
    /\ fs[Psx].content[GamelistXml] = StaleGamelist
    /\ fs[Psx].images = StaleImages
    /\ GameFiles(Psx) # {}

\* ---- C9 ----

\* C9: when the script has run again on the tree its previous run left, every
\* gamelist.xml the second run wrote was made from the same metadata XML as
\* the one the previous run wrote there, and holds the same entries with the
\* same fields in the same order; the second run never selects gamelist.xml
\* as metadata.
C9_RerunSameGamelist ==
    /\ (runs >= 2 /\ pc \in {"parse", "games"}) => cur.lb_xml # GamelistXml
    /\ (runs >= 2 /\ pc = "done") =>
          \A d \in AllDirs :
              WrittenIn(fs, d, runs) =>
                  /\ WrittenIn(fs0, d, runs - 1)
                  /\ fs[d].content[GamelistXml].from = fs0[d].content[GamelistXml].from
                  /\ fs[d].content[GamelistXml].entries = fs0[d].content[GamelistXml].entries
                  /\ {i.dest : i \in fs[d].images} = {i.dest : i \in fs0[d].images}

\* the second run is over; the folder lists the gamelist.xml of the first run
\* before the metadata XML, and its entries have images
C9_Witness ==
    /\ runs = 2
    /\ pc = "done"
    /\ WrittenIn(fs, Psx, 2)
    /\ fs[Psx].listing[1] = GamelistXml
    /\ \E i \in 1..Len(fs[Psx].content[GamelistXml].entries) :
          HasField(fs[Psx].content[GamelistXml].entries[i], "image")

\* ---- C10 ----

\* the file the images tree of folder d holds at dest
ImageAt(d, dest) == CHOOSE i \in fs[d].images : i.dest = dest

\* C10: two entries of a folder never share a cover, fanart or marquee path,
\* and the file a written entry's image field names was made from that
\* entry's own asset.
C10_DestinationsUnique ==
    \A p \in Produced : \A t \in ImageFields :
        /\ \A i, j \in 1..Len(p.entries) :
              (i # j /\ HasField(p.entries[i], t[1]) /\ HasField(p.entries[j], t[1]))
                  => FieldText(p.entries[i], t[1]) # FieldText(p.entries[j], t[1])
        /\ pc = "done" =>
              \A i \in 1..Len(p.entries) :
                  HasField(p.entries[i], t[1]) =>
                      ImageAt(p.d, FieldText(p.entries[i], t[1])).src
                          = EntryAsset(p.d, p.entries[i], t[2])

====
